---- MODULE Spec2Model ----
(***************************************************************************)
(* render_color_cloud.py: the frame synthesizer render_frame_vectorized,   *)
(* the sheet assembler create_sprite_sheet and the script's main.          *)
(*                                                                         *)
(* Numbers.  Python floats are modelled by integers:                       *)
(*   - an angle is a whole number of 1/TwoPi-ths of a turn, so that the    *)
(*     source's 2*pi is TwoPi angle units and a count of radians is        *)
(*     converted by Radians;                                               *)
(*   - a colour, a noise value or a mix factor is a whole number of        *)
(*     1/Scale-ths, products are rounded down (Mul);                       *)
(*   - the alpha mask is exact: a fraction [num, den], with dist counted   *)
(*     in steps of 0.85/Grid;                                              *)
(*   - uv_x, uv_y are exact fractions [num, den].                          *)
(* Time t is a whole number of 1/FPS seconds (t_ticks), as main calls it.  *)
(***************************************************************************)
EXTENDS Integers, Sequences, FiniteSets, TLC

VARIABLES
    caller,         \* which entry point runs: "main", "sheet", "render", "alpha"
    pc,             \* position of the running entry point
    frames,         \* main.frames / create_sprite_sheet's argument frames
    cols,           \* create_sprite_sheet's argument cols
    rows,           \* create_sprite_sheet: rows
    sheet_size,     \* create_sprite_sheet: <<sheet_width, sheet_height>>
    sheet,          \* create_sprite_sheet: the canvas, pixel -> RGBA
    i,              \* loop index of main's render loop / of the paste loop
    writes,         \* history: how many times each canvas pixel was written
    clipped,        \* history: pixels of pasted frames that fell off the canvas
    calls,          \* history: the calls of render_frame_vectorized, in order
    out,            \* the files saved, in order
    t_ticks,        \* render_frame_vectorized's argument t, in 1/FPS seconds
    loop_duration,  \* render_frame_vectorized's argument loop_duration
    uv,             \* render_frame_vectorized: pixel -> <<uv_x, uv_y>>
    noise,          \* render_frame_vectorized: pixel -> <<n1, n2, n3>>
    precast,        \* render_frame_vectorized: pixel -> the 4 values cast to uint8
    frame,          \* render_frame_vectorized: the frame returned
    dist1, dist2,   \* two radial distances, in steps of 0.85/Grid
    alpha1, alpha2  \* the alpha mask at dist1 and at dist2

vars == <<caller, pc, frames, cols, rows, sheet_size, sheet, i, writes, clipped,
          calls, out, t_ticks, loop_duration, uv, noise, precast, frame,
          dist1, dist2, alpha1, alpha2>>

sheetVars  == <<frames, cols, rows, sheet_size, sheet, i, writes, clipped>>
renderVars == <<t_ticks, loop_duration, uv, noise, precast, frame>>
alphaVars  == <<dist1, dist2, alpha1, alpha2>>

(***************************************************************************)
(* Sizes.  The frame is WIDTH x HEIGHT pixels (512 x 512 at lines 8-9);   *)
(* the model runs the same code on small frames.  FPS, DURATION and hence  *)
(* TOTAL_FRAMES = 120 are the source's.                                    *)
(***************************************************************************)
WIDTH == 3
HEIGHT == 3
FPS == 12
DURATION == 10
TOTAL_FRAMES == FPS * DURATION

MaxFrames == 7      \* create_sprite_sheet is called with 0..MaxFrames frames
MaxCols == 3        \* and with cols in -2..MaxCols
Grid == 5           \* steps of dist between 0 and 0.85
Scale == 1000       \* resolution of colours, noise values and mix factors
TwoPi == 360        \* angle units in one turn (2*pi radians)

Pixels == (0 .. WIDTH - 1) \X (0 .. HEIGHT - 1)

Max(a, b) == IF a >= b THEN a ELSE b
Min(a, b) == IF a <= b THEN a ELSE b

(***************************************************************************)
(* create_sprite_sheet                                                     *)
(***************************************************************************)

\* math.ceil(n / c) for c # 0
CeilDiv(n, c) == -((-n) \div c)

SheetRowsFloor(n, c) == n \div c
\* rows = math.ceil(len(frames) / cols)
sheet_rows(n, c) == CeilDiv(n, c)

\* <<sheet_width, sheet_height>> for tiles of w x h pixels
sheet_dims(w, h, n, c) == <<w * c, h * sheet_rows(n, c)>>

\* Image.new('RGBA', size, (0, 0, 0, 0)): every pixel the fill colour
Transparent == <<0, 0, 0, 0>>

Canvas(size) == (0 .. size[1] - 1) \X (0 .. size[2] - 1)

new_sheet(size) == [p \in Canvas(size) |-> Transparent]

TileOriginSwapped(k, c) == <<(k \div c) * WIDTH, (k % c) * HEIGHT>>
TileOriginNext(k, c) == <<((k + 1) % c) * WIDTH, ((k + 1) \div c) * HEIGHT>>
TileOriginUnscaled(k, c) == <<k % c, (k \div c) * HEIGHT>>
\* row = i // cols; col = i % cols; x = col * WIDTH; y = row * HEIGHT
tile_origin(k, c) == <<(k % c) * WIDTH, (k \div c) * HEIGHT>>

\* the canvas pixels that sheet.paste(frame, (x, y)) addresses
paste_box(xy) == {<<xy[1] + p[1], xy[2] + p[2]>> : p \in Pixels}

\* q is a pixel of that box
in_box(q, xy) ==
    /\ xy[1] <= q[1] /\ q[1] < xy[1] + WIDTH
    /\ xy[2] <= q[2] /\ q[2] < xy[2] + HEIGHT

\* sheet.paste(frame, (x, y)): the frame's pixels replace the canvas pixels of
\* the box; the part of the box outside the canvas is dropped silently
paste(canvas, fr, xy) ==
    [q \in DOMAIN canvas |->
        IF in_box(q, xy) THEN fr[<<q[1] - xy[1], q[2] - xy[2]>>]
        ELSE canvas[q]]

\* lines 74-78: the sizes and the blank canvas; cols = 0 raises
\* ZeroDivisionError at line 74, a negative size raises ValueError in Image.new
SheetNew ==
    /\ pc = "create"
    /\ IF cols = 0
       THEN /\ pc' = "error"
            /\ UNCHANGED <<rows, sheet_size, sheet, writes, i>>
       ELSE /\ rows' = sheet_rows(Len(frames), cols)
            /\ sheet_size' = sheet_dims(WIDTH, HEIGHT, Len(frames), cols)
            /\ IF sheet_size'[1] < 0 \/ sheet_size'[2] < 0
               THEN /\ pc' = "error"
                    /\ UNCHANGED <<sheet, writes, i>>
               ELSE /\ sheet' = new_sheet(sheet_size')
                    /\ writes' = [p \in Canvas(sheet_size') |-> 0]
                    /\ i' = 0
                    /\ pc' = "paste"
    /\ UNCHANGED <<caller, frames, cols, clipped, calls, out>>
    /\ UNCHANGED renderVars
    /\ UNCHANGED alphaVars

\* lines 80-85: one turn of the paste loop
Paste ==
    /\ pc = "paste"
    /\ i < Len(frames)
    /\ LET xy == tile_origin(i, cols)
           box == paste_box(xy)
       IN  /\ sheet' = paste(sheet, frames[i + 1], xy)
           /\ writes' = [q \in DOMAIN writes |->
                            IF in_box(q, xy) THEN writes[q] + 1 ELSE writes[q]]
           /\ clipped' = clipped + Cardinality(box \ DOMAIN sheet)
    /\ i' = i + 1
    /\ UNCHANGED <<caller, pc, frames, cols, rows, sheet_size, calls, out>>
    /\ UNCHANGED renderVars
    /\ UNCHANGED alphaVars

\* line 87: return sheet
SheetReturn ==
    /\ pc = "paste"
    /\ i = Len(frames)
    /\ pc' = IF caller = "main" THEN "save" ELSE "returned"
    /\ UNCHANGED <<caller, calls, out>>
    /\ UNCHANGED sheetVars
    /\ UNCHANGED renderVars
    /\ UNCHANGED alphaVars

(***************************************************************************)
(* render_frame_vectorized                                                 *)
(***************************************************************************)

Frac(n, d) == [num |-> n, den |-> d]

\* a * b for a, b in 1/Scale-ths, rounded down
Mul(a, b) == (a * b) \div Scale

\* the literal k/10 (0.3, 0.5, ...) in 1/Scale-ths
Dec(k) == (k * Scale) \div 10

\* the angle of num/den radians, in angle units (2*pi = 6.2832)
Radians(num, den) == (num * TwoPi * 10000) \div (den * 62832)

\* np.sin: Bhaskara's rational approximation of the sine on a half turn,
\* 16 x (pi - x) / (5 pi^2 - 4 x (pi - x)), odd and periodic; in 1/Scale-ths
np_sin(a) ==
    LET h == TwoPi \div 2
        d == a % TwoPi
        B(x) == (16 * x * (h - x) * Scale) \div (5 * h * h - 4 * x * (h - x))
    IN  IF d <= h THEN B(d) ELSE -B(d - h)

\* np.cos(a) = sin(a + pi/2)
np_cos(a) == np_sin(a + TwoPi \div 4)

\* np.clip
clip(x, lo, hi) == Min(Max(x, lo), hi)

\* line 19: uv_x = x_coords / WIDTH
uv_x(x) == Frac(x, WIDTH)

UvYTopDown(y) == Frac(y, HEIGHT)
\* line 21: uv_y = 1.0 - (y_coords / HEIGHT)
uv_y(y) == Frac(HEIGHT - y, HEIGHT)

\* line 26: time = (t / loop_duration) * (2.0 * np.pi / 0.3), t = t_ticks / FPS
time(t, L) == (t * TwoPi * 10) \div (FPS * L * 3)

\* time * 0.k
Tenths(a, k) == (a * k) \div 10

\* the four periodic terms' phases: time, time * 0.7, time * 0.5, time * 0.8
phases(t, L) ==
    <<time(t, L), Tenths(time(t, L), 7), Tenths(time(t, L), 5), Tenths(time(t, L), 8)>>

\* lines 29-31: <<n1, n2, n3>> at pixel p
noise_fields(p, t, L) ==
    LET ux == uv_x(p[1])
        uy == uv_y(p[2])
        tm == time(t, L)
        n1 == Mul(np_sin(Radians(3 * ux.num, ux.den) + tm),
                  np_cos(Radians(2 * uy.num, uy.den) - Tenths(tm, 7)))
        n2 == Mul(np_cos(Radians(25 * ux.num, 10 * ux.den) - Tenths(tm, 5)),
                  np_sin(Radians(35 * uy.num, 10 * uy.den) + tm))
        n3 == np_sin(Radians(2 * (ux.num * uy.den + uy.num * ux.den), ux.den * uy.den)
                     + Tenths(tm, 8))
    IN  <<n1, n2, n3>>

\* lines 34-37, in tenths
c1 == <<10, 3, 5>>
c2 == <<3, 5, 10>>
c3 == <<2, 9, 6>>
c4 == <<10, 8, 2>>

\* a * (1 - m) + b * m
lerp(a, b, m) == Mul(a, Scale - m) + Mul(b, m)

\* lines 40-47: the colour at pixel p, <<r, g, b>> in 1/Scale-ths
color(p, t, L) ==
    LET n == noise_fields(p, t, L)
        mix1 == Mul(n[1], Dec(5)) + Dec(5)
        mix2 == Mul(n[2], Dec(5)) + Dec(5)
        mix3 == Mul(n[3], Dec(3)) + Dec(3)
    IN  [k \in 1 .. 3 |->
            lerp(lerp(lerp(Dec(c1[k]), Dec(c2[k]), mix1), Dec(c3[k]), mix2),
                 Dec(c4[k]), mix3)]

\* lines 50-52: dist = sqrt(cx^2 + cy^2) * 2, in whole steps of 0.85/Grid
\* (rounded down): the greatest d with (d * 17 / (20 * Grid))^2 <= 4 (cx^2 + cy^2)
dist(p) ==
    LET ux == uv_x(p[1])
        uy == uv_y(p[2])
        cx == Frac(2 * ux.num - ux.den, 2 * ux.den)
        cy == Frac(2 * uy.num - uy.den, 2 * uy.den)
        q  == Frac(cx.num * cx.num * cy.den * cy.den + cy.num * cy.num * cx.den * cx.den,
                   cx.den * cx.den * cy.den * cy.den)
    IN  CHOOSE d \in 0 .. 2 * Grid :
            /\ d * d * 289 * q.den <= 1600 * Grid * Grid * q.num
            /\ (d + 1) * (d + 1) * 289 * q.den > 1600 * Grid * Grid * q.num

\* u * u * (3 - 2 u) of the fraction u
Hermite(u) == Frac(u.num * u.num * (3 * u.den - 2 * u.num), u.den * u.den * u.den)

SmoothstepUnclipped(edge0, edge1, x) == Hermite(Frac(x - edge0, edge1 - edge0))
\* lines 67-70, edge0, edge1 and x in steps of 0.85/Grid
smoothstep_np(edge0, edge1, x) ==
    Hermite(Frac(clip(x - edge0, 0, edge1 - edge0), edge1 - edge0))

AlphaNotInverted(d) == Hermite(smoothstep_np(0, Grid, d))
\* lines 55-57: alpha = 1 - smoothstep(0, 0.85, dist); alpha = alpha^2 (3 - 2 alpha)
alpha_mask(d) ==
    LET s == smoothstep_np(0, Grid, d)
    IN  Hermite(Frac(s.den - s.num, s.den))

\* whole + num/den with 0 <= num < den
Mixed(w, n, d) == [whole |-> w, num |-> n, den |-> d]

\* f * 255, as a mixed number; multiplied in two steps (255 = 15 * 17) to
\* keep the products small
times255(f) ==
    LET a == 15 * f.num
        b == 17 * (a % f.den)
    IN  Mixed(17 * (a \div f.den) + b \div f.den, b % f.den, f.den)

\* lines 60-63: the four values that are cast to uint8, as mixed numbers
scaled(p, t, L) ==
    LET col == color(p, t, L)
        a   == alpha_mask(dist(p))
    IN  <<times255(Frac(clip(col[1], 0, Scale), Scale)),
          times255(Frac(clip(col[2], 0, Scale), Scale)),
          times255(Frac(clip(col[3], 0, Scale), Scale)),
          times255(a)>>

\* .astype(np.uint8): the fraction is dropped; a value outside 0..255 wraps
astype_uint8(v) == v.whole % 256

\* lines 16-65: the frame returned for t = t / FPS seconds, pixel -> RGBA
render_frame_vectorized(t, L) ==
    [p \in Pixels |->
        LET v == scaled(p, t, L)
        IN  <<astype_uint8(v[1]), astype_uint8(v[2]),
              astype_uint8(v[3]), astype_uint8(v[4])>>]

\* a call render_frame_vectorized(t_ticks / FPS, loop_duration); the division
\* at line 26 raises ZeroDivisionError when loop_duration = 0
RenderCall ==
    /\ caller = "render"
    /\ pc = "call"
    /\ calls' = Append(calls, [t |-> t_ticks, loop_duration |-> loop_duration])
    /\ IF loop_duration = 0
       THEN /\ pc' = "error"
            /\ UNCHANGED <<uv, noise, precast, frame>>
       ELSE /\ uv' = [p \in Pixels |-> <<uv_x(p[1]), uv_y(p[2])>>]
            /\ noise' = [p \in Pixels |-> noise_fields(p, t_ticks, loop_duration)]
            /\ precast' = [p \in Pixels |-> scaled(p, t_ticks, loop_duration)]
            /\ frame' = render_frame_vectorized(t_ticks, loop_duration)
            /\ pc' = "returned"
    /\ UNCHANGED <<caller, out, t_ticks, loop_duration>>
    /\ UNCHANGED sheetVars
    /\ UNCHANGED alphaVars

\* the alpha mask of lines 55-57 at two distances
AlphaEval ==
    /\ caller = "alpha"
    /\ pc = "call"
    /\ alpha1' = alpha_mask(dist1)
    /\ alpha2' = alpha_mask(dist2)
    /\ pc' = "returned"
    /\ UNCHANGED <<caller, calls, out, dist1, dist2>>
    /\ UNCHANGED sheetVars
    /\ UNCHANGED renderVars

(***************************************************************************)
(* main                                                                    *)
(***************************************************************************)

FrameTimeNext(k) == k + 1
\* line 95: t = i / FPS, in 1/FPS seconds
frame_time(k) == k

\* lines 94-98: one turn of the render loop
RenderStep ==
    /\ caller = "main"
    /\ pc = "render"
    /\ i < TOTAL_FRAMES
    /\ calls' = Append(calls, [t |-> frame_time(i), loop_duration |-> DURATION])
    /\ frames' = Append(frames, render_frame_vectorized(frame_time(i), DURATION))
    /\ i' = i + 1
    /\ UNCHANGED <<caller, pc, cols, rows, sheet_size, sheet, writes, clipped, out>>
    /\ UNCHANGED renderVars
    /\ UNCHANGED alphaVars

\* lines 104-107: the loop is over; cols = 12; create_sprite_sheet(frames, cols)
MainCallSheet ==
    /\ caller = "main"
    /\ pc = "render"
    /\ i = TOTAL_FRAMES
    /\ cols' = 12
    /\ pc' = "create"
    /\ UNCHANGED <<caller, frames, rows, sheet_size, sheet, i, writes, clipped,
                   calls, out>>
    /\ UNCHANGED renderVars
    /\ UNCHANGED alphaVars

\* line 108: sprite_sheet.save(sprite_path, ...)
SaveSheet ==
    /\ caller = "main"
    /\ pc = "save"
    /\ out' = Append(out, [path |-> "color_cloud_sprite.png", index |-> -1, image |-> sheet])
    /\ pc' = "preview"
    /\ UNCHANGED <<caller, calls>>
    /\ UNCHANGED sheetVars
    /\ UNCHANGED renderVars
    /\ UNCHANGED alphaVars

\* line 113: len(frames) // 4
preview_index(n) == n \div 4

\* lines 113-125: frames[len(frames) // 4].save(preview_path); the report
SavePreview ==
    /\ caller = "main"
    /\ pc = "preview"
    /\ IF preview_index(Len(frames)) < Len(frames)
       THEN /\ out' = Append(out, [path |-> "color_cloud.png",
                                   index |-> preview_index(Len(frames)),
                                   image |-> frames[preview_index(Len(frames)) + 1]])
            /\ pc' = "done"
       ELSE /\ pc' = "error"    \* IndexError
            /\ UNCHANGED out
    /\ UNCHANGED <<caller, calls>>
    /\ UNCHANGED sheetVars
    /\ UNCHANGED renderVars
    /\ UNCHANGED alphaVars

(***************************************************************************)
(* The runs: main(), or one call of a function with arguments drawn from   *)
(* small sets.                                                             *)
(***************************************************************************)

\* an image of WIDTH x HEIGHT pixels that no other frame shares a pixel with
tagged_frame(k) == [p \in Pixels |-> <<k, p[1], p[2], 255>>]

FrameCounts == (0 .. MaxFrames) \cup {26}
ColsTried == ((-2) .. MaxCols) \cup {8}
LoopDurations == {-DURATION, -1, 0, 1, 5, DURATION}
Dists == 0 .. 2 * Grid

Idle ==
    /\ frames = <<>> /\ cols = 0 /\ rows = 0 /\ sheet_size = <<0, 0>>
    /\ sheet = <<>> /\ writes = <<>> /\ clipped = 0 /\ i = 0
    /\ calls = <<>> /\ out = <<>>
    /\ t_ticks = 0 /\ loop_duration = 0
    /\ uv = <<>> /\ noise = <<>> /\ precast = <<>> /\ frame = <<>>
    /\ dist1 = 0 /\ dist2 = 0 /\ alpha1 = Frac(0, 1) /\ alpha2 = Frac(0, 1)

InitMain ==
    /\ caller = "main" /\ pc = "render"
    /\ Idle

InitSheet ==
    /\ caller = "sheet" /\ pc = "create"
    /\ \E n \in FrameCounts : frames = [k \in 1 .. n |-> tagged_frame(k)]
    /\ cols \in ColsTried
    /\ rows = 0 /\ sheet_size = <<0, 0>>
    /\ sheet = <<>> /\ writes = <<>> /\ clipped = 0 /\ i = 0
    /\ calls = <<>> /\ out = <<>>
    /\ t_ticks = 0 /\ loop_duration = 0
    /\ uv = <<>> /\ noise = <<>> /\ precast = <<>> /\ frame = <<>>
    /\ dist1 = 0 /\ dist2 = 0 /\ alpha1 = Frac(0, 1) /\ alpha2 = Frac(0, 1)

InitRender ==
    /\ caller = "render" /\ pc = "call"
    /\ t_ticks \in 0 .. TOTAL_FRAMES
    /\ loop_duration \in LoopDurations
    /\ frames = <<>> /\ cols = 0 /\ rows = 0 /\ sheet_size = <<0, 0>>
    /\ sheet = <<>> /\ writes = <<>> /\ clipped = 0 /\ i = 0
    /\ calls = <<>> /\ out = <<>>
    /\ uv = <<>> /\ noise = <<>> /\ precast = <<>> /\ frame = <<>>
    /\ dist1 = 0 /\ dist2 = 0 /\ alpha1 = Frac(0, 1) /\ alpha2 = Frac(0, 1)

InitAlpha ==
    /\ caller = "alpha" /\ pc = "call"
    /\ dist1 \in Dists /\ dist2 \in Dists
    /\ alpha1 = Frac(0, 1) /\ alpha2 = Frac(0, 1)
    /\ frames = <<>> /\ cols = 0 /\ rows = 0 /\ sheet_size = <<0, 0>>
    /\ sheet = <<>> /\ writes = <<>> /\ clipped = 0 /\ i = 0
    /\ calls = <<>> /\ out = <<>>
    /\ t_ticks = 0 /\ loop_duration = 0
    /\ uv = <<>> /\ noise = <<>> /\ precast = <<>> /\ frame = <<>>

Init == InitMain \/ InitSheet \/ InitRender \/ InitAlpha

Next ==
    \/ RenderStep
    \/ MainCallSheet
    \/ SheetNew
    \/ Paste
    \/ SheetReturn
    \/ SaveSheet
    \/ SavePreview
    \/ RenderCall
    \/ AlphaEval

Spec == Init /\ [][Next]_vars

\* main is one sequential process: a step that can be taken is taken
FairSpec == Spec /\ WF_vars(Next)

(***************************************************************************)
(* Properties                                                              *)
(***************************************************************************)

\* create_sprite_sheet has allocated its canvas
SheetAllocated ==
    /\ caller \in {"sheet", "main"}
    /\ pc \in {"paste", "returned", "save", "preview", "done"}

\* create_sprite_sheet has returned its sheet
SheetReturned ==
    /\ caller \in {"sheet", "main"}
    /\ pc \in {"returned", "save", "preview", "done"}

\* the canvas pixel of tile slot k (row-major, cols slots a row) at offset p
SlotPixel(k, p) == <<(k % cols) * WIDTH + p[1], (k \div cols) * HEIGHT + p[2]>>

\* C1: with cols >= 1, every frame pasted so far (all of them once the sheet
\* is returned) fills the tile whose top-left pixel is
\* ((k mod cols) * WIDTH, (k div cols) * HEIGHT) with exactly its own pixels,
\* and no other frame's; with 26 frames and 8 columns frame 25 is at row 3,
\* column 1.
C1_TilesInSequenceOrder ==
    (SheetAllocated /\ cols >= 1) =>
        /\ \A k \in 0 .. i - 1 : \A p \in Pixels :
              /\ SlotPixel(k, p) \in DOMAIN sheet
              /\ sheet[SlotPixel(k, p)] = frames[k + 1][p]
        /\ SheetReturned => i = Len(frames)
        /\ (SheetReturned /\ caller = "sheet") =>
              \A k \in 0 .. Len(frames) - 1 : \A j \in 0 .. Len(frames) - 1 :
                  j # k => \E p \in Pixels : sheet[SlotPixel(k, p)] # frames[j + 1][p]
        /\ (SheetReturned /\ Len(frames) = 26 /\ cols = 8) =>
              \A p \in Pixels :
                  sheet[<<1 * WIDTH + p[1], 3 * HEIGHT + p[2]>>] = frames[26][p]

C1_Witness ==
    /\ caller = "sheet" /\ pc = "returned"
    /\ Len(frames) = 26 /\ cols = 8
    /\ sheet[<<WIDTH, 3 * HEIGHT>>] = tagged_frame(26)[<<0, 0>>]

\* C2: for N >= 0 frames and cols >= 1 the sheet is exactly WIDTH * cols by
\* HEIGHT * rows pixels, rows being the least integer with rows * cols >= N;
\* 512 x 512 tiles, N = 120, cols = 12 give rows = 10 and 6144 x 5120 (main's
\* call has N = 120, cols = 12); N = 26, cols = 8 give rows = 4.
C2_SheetSize ==
    /\ (SheetAllocated /\ cols >= 1) =>
          /\ rows >= 0
          /\ rows * cols >= Len(frames)
          /\ (rows - 1) * cols < Len(frames)
          /\ sheet_size = <<WIDTH * cols, HEIGHT * rows>>
          /\ DOMAIN sheet = (0 .. WIDTH * cols - 1) \X (0 .. HEIGHT * rows - 1)
          /\ (Len(frames) = 26 /\ cols = 8) => rows = 4
          /\ caller = "main" =>
                /\ Len(frames) = 120 /\ cols = 12 /\ rows = 10
                /\ sheet_size = <<12 * WIDTH, 10 * HEIGHT>>
    /\ sheet_dims(512, 512, 120, 12) = <<6144, 5120>>

C2_Witness ==
    /\ caller = "main" /\ pc = "save"
    /\ rows = 10 /\ sheet_size = <<12 * WIDTH, 10 * HEIGHT>>

\* C3: the tile slots N .. rows*cols-1 are never written: at every step of the
\* paste loop and in the sheet returned each of their pixels is (0, 0, 0, 0).
C3_TrailingSlotsTransparent ==
    (SheetAllocated /\ cols >= 1) =>
        \A k \in Len(frames) .. rows * cols - 1 : \A p \in Pixels :
            /\ SlotPixel(k, p) \in DOMAIN sheet
            /\ sheet[SlotPixel(k, p)] = <<0, 0, 0, 0>>
            /\ writes[SlotPixel(k, p)] = 0

C3_Witness ==
    /\ caller = "sheet" /\ pc = "returned"
    /\ Len(frames) = 26 /\ cols = 8 /\ rows * cols = 32
    /\ \A k \in 26 .. 31 : \A p \in Pixels : sheet[SlotPixel(k, p)][4] = 0

\* the four values cast to uint8, each whole + num/den
InByteRange(v) == v.whole >= 0 /\ (v.whole < 255 \/ (v.whole = 255 /\ v.num = 0))

\* C4: at t = loop_duration every periodic term's phase is a whole number of
\* turns, so n1, n2, n3 and the frame equal those of t = 0.
C4_LoopExact ==
    (caller = "render" /\ pc = "returned" /\ loop_duration > 0
        /\ t_ticks = FPS * loop_duration) =>
        /\ \A k \in 1 .. 4 : phases(t_ticks, loop_duration)[k] % TwoPi = 0
        /\ \A p \in Pixels : noise[p] = noise_fields(p, 0, loop_duration)
        /\ frame = render_frame_vectorized(0, loop_duration)

\* C5: with loop_duration > 0 each of the four values cast to uint8 lies in
\* [0, 255], so the cast does not wrap and every channel is in 0..255.
C5_ChannelsInRange ==
    (caller = "render" /\ pc = "returned" /\ loop_duration > 0) =>
        \A p \in Pixels : \A k \in 1 .. 4 :
            /\ InByteRange(precast[p][k])
            /\ frame[p][k] = precast[p][k].whole
            /\ frame[p][k] \in 0 .. 255

C5_Witness ==
    /\ caller = "render" /\ pc = "returned" /\ loop_duration > 0
    /\ \E p \in Pixels : frame[p][4] \notin {0, 255}
    /\ \E p \in Pixels : frame[p][4] = 0
    /\ \A p \in Pixels : \A k \in 1 .. 4 : InByteRange(precast[p][k])

\* C6: the alpha mask does not increase with dist, is 1 (its maximum) at
\* dist = 0 and is 0 for every dist >= 1 (dist counts steps of 0.85/Grid, so
\* dist >= 1 is 17 * dist >= 20 * Grid).
C6_AlphaMonotone ==
    (caller = "alpha" /\ pc = "returned") =>
        /\ alpha1.den = alpha2.den /\ alpha1.den > 0
        /\ dist1 <= dist2 => alpha1.num >= alpha2.num
        /\ alpha1.num <= alpha1.den
        /\ dist1 = 0 => alpha1.num = alpha1.den
        /\ 17 * dist1 >= 20 * Grid => alpha1.num = 0

C6_Witness ==
    /\ caller = "alpha" /\ pc = "returned"
    /\ 0 < dist1 /\ dist1 < dist2
    /\ alpha1.num < alpha1.den /\ alpha1.num > alpha2.num /\ alpha2.num > 0

\* C7: a call that violates its precondition ends in an error and returns
\* nothing: create_sprite_sheet with cols < 1, render_frame_vectorized with
\* loop_duration <= 0.
C7_PreconditionsFailFast ==
    /\ (caller = "sheet" /\ cols < 1) => pc \in {"create", "error"}
    /\ (caller = "render" /\ loop_duration <= 0) => pc \in {"call", "error"}

\* C8: with cols >= 1 the boxes pasted for two distinct frames never overlap,
\* every box lies inside the canvas, and every canvas pixel is written at most
\* once (exactly once if it lies in the tile of a pasted frame).
C8_WriteOncePerSlot ==
    (SheetAllocated /\ cols >= 1) =>
        /\ clipped = 0
        /\ \A q \in DOMAIN sheet : writes[q] <= 1
        /\ \A k \in 0 .. i - 1 :
              /\ paste_box(tile_origin(k, cols)) \subseteq DOMAIN sheet
              /\ \A q \in paste_box(tile_origin(k, cols)) : writes[q] = 1
              /\ \A j \in 0 .. k - 1 :
                    paste_box(tile_origin(j, cols)) \cap paste_box(tile_origin(k, cols)) = {}

C8_Witness ==
    /\ caller = "sheet" /\ pc = "returned"
    /\ Len(frames) >= 3 /\ cols = 2
    /\ Cardinality({q \in DOMAIN sheet : writes[q] = 1}) = Len(frames) * WIDTH * HEIGHT
    /\ \E q \in DOMAIN sheet : writes[q] = 0

\* C9 as stated: 0 <= uv_x < 1 and 0 <= uv_y < 1 at every pixel.
C9_UvHalfOpen ==
    (caller = "render" /\ pc = "returned") =>
        \A p \in Pixels :
            /\ 0 <= uv[p][1].num /\ uv[p][1].num < uv[p][1].den
            /\ 0 <= uv[p][2].num /\ uv[p][2].num < uv[p][2].den

\* C9, amended: 0 <= uv_x < 1 and 0 < uv_y <= 1 at every pixel; uv_y is 1 in
\* row y = 0 and is never 0.
C9_UvRange ==
    (caller = "render" /\ pc = "returned") =>
        \A p \in Pixels :
            /\ uv[p][1].den = WIDTH /\ uv[p][2].den = HEIGHT
            /\ 0 <= uv[p][1].num /\ uv[p][1].num < uv[p][1].den
            /\ 0 < uv[p][2].num /\ uv[p][2].num <= uv[p][2].den
            /\ p[2] = 0 => uv[p][2].num = uv[p][2].den

C9_Witness ==
    /\ caller = "render" /\ pc = "returned"
    /\ uv[<<0, 0>>][2].num = uv[<<0, 0>>][2].den
    /\ uv[<<0, HEIGHT - 1>>][2].num = 1

\* main, at every step: the calls made so far, the frame just rendered, the
\* files saved so far; and at the end the frames and the sheet's tiles
MainSafety ==
    caller = "main" =>
        /\ pc # "error"
        /\ TOTAL_FRAMES = 120
        /\ Len(calls) = Len(frames)
        /\ Len(calls) = (IF pc = "render" THEN i ELSE TOTAL_FRAMES)
        /\ \A k \in 1 .. Len(calls) :
              calls[k] = [t |-> k - 1, loop_duration |-> DURATION]
        /\ (pc = "render" /\ i > 0) =>
              frames[i] = render_frame_vectorized(i - 1, DURATION)
        /\ pc = "done" =>
              \A k \in 0 .. TOTAL_FRAMES - 1 :
                  LET fr == render_frame_vectorized(k, DURATION)
                  IN  /\ frames[k + 1] = fr
                      /\ \A p \in Pixels : sheet[SlotPixel(k, p)] = fr[p]
        /\ Len(out) = (CASE pc = "preview" -> 1 [] pc = "done" -> 2 [] OTHER -> 0)
        /\ Len(out) >= 1 =>
              out[1] = [path |-> "color_cloud_sprite.png", index |-> -1, image |-> sheet]
        /\ Len(out) >= 2 =>
              /\ out[2].path = "color_cloud.png"
              /\ out[2].index = 30 /\ out[2].index = TOTAL_FRAMES \div 4
              /\ out[2].index < Len(frames)
              /\ out[2].image = frames[31]

\* C10: main renders frame i at t = i / FPS with loop_duration = DURATION,
\* once for each i = 0 .. TOTAL_FRAMES-1 in increasing order; it calls
\* create_sprite_sheet only with all TOTAL_FRAMES frames, so that slot i holds
\* the frame of t = i / FPS; it saves the sheet, then the preview, frame
\* TOTAL_FRAMES div 4 = 30; and it terminates.
C10_MainOrder ==
    /\ []MainSafety
    /\ (caller = "main") ~> (pc = "done")

C10_Witness ==
    /\ caller = "main" /\ pc = "done"
    /\ Len(calls) = 120 /\ Len(out) = 2 /\ out[2].index = 30

====
